---- MODULE Spec2Model ----
(***************************************************************************)
(* Model of angr's value/copy propagation over AIL:                        *)
(*   src/angr/analyses/propagator/propagator.py  (the abstract state and   *)
(*                                                the fixpoint driver)     *)
(*   src/angr/analyses/propagator/engine_ail.py  (the transfer engine)     *)
(*                                                                         *)
(* Python dicts are objects: PropagatorAILState.copy() copies the outer    *)
(* dict of the Replacement Table shallowly, so the per-location dicts are  *)
(* shared between a state and its copies, and the analysis publishes the   *)
(* outer dict of the first state it finishes.  Both levels are therefore   *)
(* modelled as heaps (outer, inner) addressed by object ids.               *)
(***************************************************************************)
EXTENDS Integers, Sequences, FiniteSets, TLC

VARIABLES
    outer,            \* heap of outer dicts `_replacements`: id -> [codeloc -> inner id]
    inner,            \* heap of per-location dicts: id -> [atom -> replacement]
    pool,             \* PropagatorAILState objects driven through their methods (SpecState)
    last,             \* history: the last method call on a pool object, with its arguments
    nops,             \* history: number of method calls made on the pool
    config,           \* the arguments of PropagatorAnalysis.__init__ and the graph analysed
    blocks,           \* the statements of every node's block, as far as they were visited
    sealed,           \* the nodes whose block is known in full
    pending,          \* the nodes the graph visitor still has to hand out
    node_iterations,  \* PropagatorAnalysis._node_iterations
    states,           \* PropagatorAnalysis._states: the outbound state of every node
    replacements,     \* PropagatorAnalysis.replacements: id of an outer dict, 0 for None
    equivalence,      \* PropagatorAnalysis.equivalence
    pc,               \* the code location the engine is at, NoDef between two nodes
    cur,              \* the state the engine is working on
    hist,             \* history: the (codeloc, atom, expression) proposals counted so far
    done              \* _analyze has returned

(***************************************************************************)
(* Bounds                                                                  *)
(***************************************************************************)
\* number of method calls explored on the pool of SpecState
MaxOps == 3

\* number of statements of the analysed function or block
MaxStmts == 3

\* PropagatorAnalysis.__init__: max_iterations=3
max_iterations == 3

(***************************************************************************)
(* IR expressions and values                                               *)
(*                                                                         *)
(* An ailment expression is a record with a kind k.  Only the def_at tag   *)
(* of a Register node is ever read back (is_using_outdated_def reads       *)
(* expr.tags of the register sub-references), so Register nodes carry it   *)
(* as `def`; ailment's == and hash ignore tags, see Strip.                 *)
(* claripy values: TOP(bits) is claripy.BVS("TOP", bits).                  *)
(* TopS is an instance of the class values.Top.                            *)
(***************************************************************************)
\* the widths of the registers and constants used
Bits == {32}

\* no def_at tag / no definition site (Python None)
NoDef == <<0, 0>>

\* Python None as a value
None == [k |-> "None"]

Const(v, bits) == [k |-> "Const", v |-> v, bits |-> bits]

Register(r, bits) == [k |-> "Reg", r |-> r, bits |-> bits, def |-> NoDef]

Tmp(t, bits) == [k |-> "Tmp", t |-> t, bits |-> bits]

BinaryOp(op, a, b, bits) == [k |-> op, a |-> a, b |-> b, bits |-> bits]

Call(f, bits) == [k |-> "Call", f |-> f, bits |-> bits]

TOP(bits) == [k |-> "TOP", bits |-> bits]

TopS == [k |-> "TopS"]

\* ailment.Expr.StackBaseOffset, a BasePointerOffset relative to the stack base
StackBaseOffset(offset, bits) == [k |-> "SBO", offset |-> offset, bits |-> bits]

\* ailment.Expr.Load of `bits` bits
Load(addr, bits) == [k |-> "Load", addr |-> addr, bits |-> bits]

\* ailment.Expr.Convert
Convert(from_bits, to_bits, is_signed, operand) ==
    [k |-> "Convert", from_bits |-> from_bits, to_bits |-> to_bits,
     is_signed |-> is_signed, operand |-> operand, bits |-> to_bits]

\* a Python int
PyInt(v) == [k |-> "Int", v |-> v]

\* PropagatorState.sp_offset: claripy.BVS("SpOffset", bits) + offset
SpOffset(offset, bits) == [k |-> "SpOffset", offset |-> offset, bits |-> bits]

\* SimStackVariable(offset, size)
SimStackVariable(offset, size) == [k |-> "StackVar", offset |-> offset, size |-> size]

BinaryOps == {"Add", "Sub", "And"}

\* isinstance(v, ailment.Expr.Expression); ailment's Call is a Statement and an Expression
IsExpression(v) ==
    v.k \in {"Const", "Reg", "Tmp", "Call", "SBO", "Load", "Convert"} \cup BinaryOps

\* isinstance(v, claripy.ast.Base)
IsClaripy(v) == v.k \in {"TOP", "SpOffset"}

\* ailment compares and hashes expressions by structure; tags take no part
RECURSIVE Strip(_)
Strip(e) ==
    IF e.k = "Reg" THEN [e EXCEPT !.def = NoDef]
    ELSE IF e.k \in BinaryOps THEN [e EXCEPT !.a = Strip(e.a), !.b = Strip(e.b)]
    ELSE IF e.k = "Load" THEN [e EXCEPT !.addr = Strip(e.addr)]
    ELSE IF e.k = "Convert" THEN [e EXCEPT !.operand = Strip(e.operand)]
    ELSE e

\* Expression.has_atom(atom, identity=False): the atom occurs in the expression
RECURSIVE HasAtom(_, _)
HasAtom(e, atom) ==
    \/ Strip(e) = Strip(atom)
    \/ /\ e.k \in BinaryOps
       /\ (HasAtom(e.a, atom) \/ HasAtom(e.b, atom))
    \/ e.k = "Load" /\ HasAtom(e.addr, atom)
    \/ e.k = "Convert" /\ HasAtom(e.operand, atom)

\* the sub-expressions of an expression, itself included
RECURSIVE SubExprs(_)
SubExprs(e) ==
    IF e.k \in BinaryOps THEN {e} \cup SubExprs(e.a) \cup SubExprs(e.b)
    ELSE IF e.k = "Load" THEN {e} \cup SubExprs(e.addr)
    ELSE IF e.k = "Convert" THEN {e} \cup SubExprs(e.operand)
    ELSE {e}

(***************************************************************************)
(* Python dict helpers: a dict is a function whose DOMAIN is its key set   *)
(***************************************************************************)
EmptyDict == <<>>

DictSet(d, key, v) == (key :> v) @@ d

DictDel(d, key) == [x \in DOMAIN d \ {key} |-> d[x]]

\* defaultdict(int).__getitem__ without the insertion
Count(d, key) == IF key \in DOMAIN d THEN d[key] ELSE 0

(***************************************************************************)
(* The abstract state.  A PropagatorAILState is a record                   *)
(*   registers     LabeledMemory of the registers: reg_offset -> record    *)
(*                 [value, labels, bits]; a label is [expr, def_at]        *)
(*   stack_variables  LabeledMemory of the stack slots: offset -> record   *)
(*   tmps          the scratch map `_tmps`: tmp_idx -> value               *)
(*   replacements  id of the outer dict `_replacements`                    *)
(*   prop_count    `_prop_count`: expression -> number of propagations     *)
(*   equivalence   `_equivalence`: set of Equivalence(codeloc, atom0, atom1)*)
(*   only_consts   `_only_consts`                                          *)
(* The operations below work on a world w = [s, outer, inner, hist, err]:  *)
(* the state s they are called on, the two heaps, the history of the       *)
(* replacements proposed so far and the exception raised, if any.          *)
(***************************************************************************)
World(s, o, i, h) == [s |-> s, outer |-> o, inner |-> i, hist |-> h, err |-> "none"]

\* PropagatorState.__init__ / PropagatorAILState.__init__ with replacements=None,
\* prop_count=None, equivalence=None: fresh dicts, no tmps
NewState(w, only_consts) ==
    [w EXCEPT !.outer = Append(w.outer, EmptyDict),
              !.s = [registers |-> EmptyDict,
                     stack_variables |-> EmptyDict,
                     tmps |-> EmptyDict,
                     replacements |-> Len(w.outer) + 1,
                     prop_count |-> EmptyDict,
                     equivalence |-> {},
                     only_consts |-> only_consts]]

\* PropagatorState.top
Top(bits) == TOP(bits)

\* PropagatorState.is_top: a claripy value that is, or contains, the variable TOP
IsTop(expr) == IsClaripy(expr) /\ expr.k = "TOP"

\* mutant of CopyState: the copy keeps the temporaries
CopyStateWithTmps(w) ==
    [w EXCEPT !.outer = Append(w.outer, w.outer[w.s.replacements]),
              !.s = [w.s EXCEPT !.replacements = Len(w.outer) + 1]]

\* PropagatorAILState.copy: `_replacements.copy()` is a shallow copy (a new outer
\* dict over the same per-location dicts); `_tmps` is not passed on
CopyState(w) ==
    [w EXCEPT !.outer = Append(w.outer, w.outer[w.s.replacements]),
              !.s = [w.s EXCEPT !.replacements = Len(w.outer) + 1,
                                !.tmps = EmptyDict]]

\* self._replacements[codeloc][old] = new, on a defaultdict(dict)
SetReplacement(w, codeloc, old, new) ==
    LET o == w.s.replacements IN
    IF codeloc \in DOMAIN w.outer[o]
    THEN [w EXCEPT !.inner[w.outer[o][codeloc]] = DictSet(@, old, new)]
    ELSE [w EXCEPT !.inner = Append(w.inner, (old :> new)),
                   !.outer[o] = DictSet(@, codeloc, Len(w.inner) + 1)]

\* del self._replacements[codeloc][old]
DelReplacement(w, codeloc, old) ==
    [w EXCEPT !.inner[w.outer[w.s.replacements][codeloc]] = DictDel(@, old)]

\* isinstance(new, int): the AIL engine never passes a Python int
IsInt(new) == new.k = "Int"

\* PropagatorState.add_replacement
BaseAddReplacement(w, codeloc, old, new) ==
    IF IsTop(new) THEN w
    ELSE IF w.s.only_consts
         THEN IF IsInt(new) \/ new.k = "TopS"
              THEN SetReplacement(w, codeloc, old, new)
              ELSE w
         ELSE SetReplacement(w, codeloc, old, new)

\* the key under which a dict holds an atom or an expression
Key(e) == Strip(e)

\* the locations of the state's table that hold an entry for old
LocsHolding(w, old) ==
    {l \in DOMAIN w.outer[w.s.replacements] :
        old \in DOMAIN w.inner[w.outer[w.s.replacements][l]]}

\* mutant of CountAndRecord: the replacement is recorded whatever the count
CountAndRecordNoFreeze(w, codeloc, old, new) ==
    LET counted == old.k # "Tmp" /\ IsExpression(new) /\ new.k # "Const"
        w1 == IF counted
              THEN [w EXCEPT !.s.prop_count =
                                 DictSet(@, Key(new), Count(@, Key(new)) + 1),
                             !.hist = @ \cup {<<codeloc, Key(old), Key(new)>>}]
              ELSE w
    IN BaseAddReplacement(w1, codeloc, Key(old), new)

\* PropagatorAILState.add_replacement from `prop_count = 0` on: count the
\* propagation, then record the replacement or retract those of old
CountAndRecord(w, codeloc, old, new) ==
    LET counted == old.k # "Tmp" /\ IsExpression(new) /\ new.k # "Const"
        w1 == IF counted
              THEN [w EXCEPT !.s.prop_count =
                                 DictSet(@, Key(new), Count(@, Key(new)) + 1),
                             !.hist = @ \cup {<<codeloc, Key(old), Key(new)>>}]
              ELSE w
        prop_count == IF counted THEN w1.s.prop_count[Key(new)] ELSE 0
    IN IF prop_count <= 1
       THEN BaseAddReplacement(w1, codeloc, Key(old), new)
       ELSE LET held == {w1.outer[w1.s.replacements][l] : l \in LocsHolding(w1, Key(old))}
            IN [w1 EXCEPT !.inner = [i \in DOMAIN @ |->
                                        IF i \in held THEN DictDel(@[i], Key(old))
                                        ELSE @[i]]]

\* the branch `type(new) is Top` of PropagatorAILState.add_replacement
EvictAt(w, codeloc, old) ==
    IF codeloc \in LocsHolding(w, Key(old))
    THEN DelReplacement(w, codeloc, Key(old))
    ELSE w

\* mutant of AddReplacement: a call expression is not rejected
AddReplacementOfCall(w, codeloc, old, new) ==
    IF new.k = "TopS" THEN EvictAt(w, codeloc, old)
    ELSE CountAndRecord(w, codeloc, old, new)

\* mutant of AddReplacement: Top is handled like any other value
AddReplacementOfTop(w, codeloc, old, new) ==
    IF new.k = "Call" THEN w
    ELSE CountAndRecord(w, codeloc, old, new)

\* PropagatorAILState.add_replacement
AddReplacement(w, codeloc, old, new) ==
    IF new.k = "Call" THEN w
    ELSE IF new.k = "TopS" THEN EvictAt(w, codeloc, old)
    ELSE CountAndRecord(w, codeloc, old, new)

\* PropagatorAILState.filter_replacements: the loop runs over the items of the
\* outer dict, so `old` is a code location and `new` the dict of that location
FilterReplacements(w) ==
    LET o == w.s.replacements
        item(loc) == [k |-> "dict", id |-> w.outer[o][loc]]
        to_remove == {old \in DOMAIN w.outer[o] :
                         /\ IsExpression(item(old))
                         /\ item(old).k # "Const"
                         /\ Count(w.s.prop_count, item(old)) > 1}
    IN [w EXCEPT !.outer[o] = [l \in DOMAIN @ \ to_remove |-> @[l]]]

\* PropagatorAILState.add_equivalence
AddEquivalence(w, codeloc, old, new) ==
    [w EXCEPT !.s.equivalence = @ \cup {<<codeloc, Key(old), Key(new)>>}]

\* PropagatorAILState.store_variable after its two guards
BindVariable(w, variable, value, def_at) ==
    IF variable.k = "Tmp"
    THEN [w EXCEPT !.s.tmps = DictSet(@, variable.t, value)]
    ELSE IF variable.k = "Reg"
    THEN IF IsClaripy(value)
         THEN [w EXCEPT !.s.registers = DictSet(@, variable.r,
                   [value |-> value,
                    labels |-> <<[expr |-> None, def_at |-> def_at]>>,
                    bits |-> variable.bits])]
         ELSE IF IsExpression(value)
         THEN [w EXCEPT !.s.registers = DictSet(@, variable.r,
                   [value |-> Top(value.bits),
                    labels |-> <<[expr |-> value, def_at |-> def_at]>>,
                    bits |-> variable.bits])]
         ELSE [w EXCEPT !.err = "TypeError"]
    ELSE w

\* mutant of StoreVariable: a value that contains the variable is bound too
StoreVariableOfSelf(w, variable, value, def_at) ==
    IF variable = None \/ value = None THEN w
    ELSE BindVariable(w, variable, value, def_at)

\* PropagatorAILState.store_variable
StoreVariable(w, variable, value, def_at) ==
    IF variable = None \/ value = None THEN w
    ELSE IF IsExpression(value) /\ HasAtom(value, variable) THEN w
    ELSE BindVariable(w, variable, value, def_at)

\* expr.copy() followed by copied_expr.tags['def_at'] = def_at
Retag(expr, def_at) ==
    IF expr.k = "Reg" THEN [expr EXCEPT !.def = def_at] ELSE expr

\* the label get_variable extracts: the only label, or (None, None)
LabelOf(rec) ==
    IF Len(rec.labels) = 1 THEN rec.labels[1] ELSE [expr |-> None, def_at |-> NoDef]

\* PropagatorAILState.get_variable; the result is [val, err]
GetVariable(s, variable) ==
    IF variable.k = "Tmp"
    THEN [val |-> IF variable.t \in DOMAIN s.tmps THEN s.tmps[variable.t] ELSE None,
          err |-> "none"]
    ELSE IF variable.k = "Reg"
    THEN IF variable.r \notin DOMAIN s.registers
         THEN [val |-> None, err |-> "none"]
         ELSE LET rec == s.registers[variable.r]
                  label == LabelOf(rec)
              IN IF IsTop(rec.value)
                 THEN IF label.expr # None
                      THEN [val |-> Retag(label.expr, label.def_at), err |-> "none"]
                      ELSE IF rec.value.bits # variable.bits
                           THEN [val |-> Top(variable.bits), err |-> "none"]
                           ELSE [val |-> rec.value, err |-> "none"]
                 ELSE IF rec.value.bits # variable.bits
                      THEN [val |-> None, err |-> "TypeError"]
                      ELSE [val |-> rec.value, err |-> "none"]
    ELSE [val |-> None, err |-> "none"]

\* arch.byte_width
byte_width == 8

\* arch.bits
arch_bits == 32

\* arch.sp_offset and arch.bp_offset: the registers of the stack and base pointer
sp_offset == 4
bp_offset == 5

\* PropagatorAILState.store_stack_variable; LabeledMemory.store keeps the value
\* under its offset
StoreStackVariable(w, addr, size, new) ==
    IF addr.k = "SBO"
    THEN [w EXCEPT !.s.stack_variables =
             DictSet(@, addr.offset,
                     [value |-> new, labels |-> <<>>, bits |-> size * byte_width])]
    ELSE w

\* PropagatorAILState.get_stack_variable; the result is [val, err]
GetStackVariable(s, addr, size) ==
    IF addr.k = "SBO"
    THEN IF addr.offset \in DOMAIN s.stack_variables
         THEN [val |-> s.stack_variables[addr.offset].value, err |-> "none"]
         ELSE [val |-> None, err |-> "SimMemoryMissingError"]
    ELSE [val |-> None, err |-> "none"]

\* v.tags.get('def_at') of the value get_variable returns for a register: the
\* copy of the label's expression carries the label's definition site
RegisterDefAt(s, r) == LabelOf(s.registers[r]).def_at

(***************************************************************************)
(* Merge                                                                   *)
(***************************************************************************)
\* Python's != between two recorded replacements
NotEqual(a, b) == Strip(a) # Strip(b)

\* mutant of MergeLocation: on a disagreement the receiver keeps its value
MergeLocationKeepsReceiver(w, vars_, loc) ==
    LET st == w.s.replacements IN
    IF loc \notin DOMAIN w.outer[st]
    THEN [w EXCEPT !.inner = Append(w.inner, vars_),
                   !.outer[st] = DictSet(@, loc, Len(w.inner) + 1)]
    ELSE LET i == w.outer[st][loc]
             d == w.inner[i]
         IN [w EXCEPT !.inner[i] =
                [var \in DOMAIN d \cup DOMAIN vars_ |->
                    IF var \notin DOMAIN d THEN vars_[var] ELSE d[var]]]

\* the body of the loop of PropagatorState.merge for one location of o._replacements
MergeLocation(w, vars_, loc) ==
    LET st == w.s.replacements IN
    IF loc \notin DOMAIN w.outer[st]
    THEN \* state._replacements[loc] = vars_.copy()
         [w EXCEPT !.inner = Append(w.inner, vars_),
                   !.outer[st] = DictSet(@, loc, Len(w.inner) + 1)]
    ELSE LET i == w.outer[st][loc]
             d == w.inner[i]
         IN [w EXCEPT !.inner[i] =
                [var \in DOMAIN d \cup DOMAIN vars_ |->
                    IF var \notin DOMAIN d THEN vars_[var]
                    ELSE IF var \in DOMAIN vars_ /\ NotEqual(d[var], vars_[var])
                         THEN TopS
                         ELSE d[var]]]

\* for loc, vars_ in o._replacements.items(): ...
RECURSIVE MergeLocations(_, _, _)
MergeLocations(w, otable, locs) ==
    IF locs = {} THEN w
    ELSE LET loc == CHOOSE l \in locs : TRUE
         IN MergeLocations(MergeLocation(w, w.inner[otable[loc]], loc),
                           otable, locs \ {loc})

\* LabeledMemory.merge: a key all operands hold with the same record keeps it, a
\* key they hold with different records becomes TOP and carries the labels of
\* both, a key some operand does not hold is dropped
MergeMemory(mem, other) ==
    [x \in DOMAIN mem \cap DOMAIN other |->
        IF mem[x] = other[x] THEN mem[x]
        ELSE [value |-> Top(mem[x].bits),
              labels |-> mem[x].labels \o other[x].labels,
              bits |-> mem[x].bits]]

\* PropagatorState.merge followed by the rest of PropagatorAILState.merge, for
\* the operands in the sequence others
RECURSIVE MergeInto(_, _)
MergeInto(w, others) ==
    IF others = <<>> THEN w
    ELSE LET o == Head(others)
             otable == w.outer[o.replacements]
             w1 == MergeLocations(w, otable, DOMAIN otable)
             w2 == [w1 EXCEPT !.s.equivalence = @ \cup o.equivalence,
                              !.s.registers = MergeMemory(@, o.registers),
                              !.s.stack_variables = MergeMemory(@, o.stack_variables)]
         IN MergeInto(w2, Tail(others))

\* PropagatorAILState.merge(*others) on the state of w
MergeStates(w, others) == MergeInto(CopyState(w), others)

(***************************************************************************)
(* The transfer engine (engine_ail.py).  An expression handler returns     *)
(* [val, w]: the value the expression evaluates to and the world after     *)
(* the replacements it recorded.                                           *)
(***************************************************************************)
\* OutdatedDefinitionWalker._handle_Register, for the register sub-reference sub
OutdatedRegister(s, sub) ==
    LET v == GetVariable(s, sub).val
    IN /\ v # None
       /\ IsExpression(v)
       /\ RegisterDefAt(s, sub.r) # sub.def

\* SimEnginePropagatorAIL.is_using_outdated_def
IsUsingOutdatedDef(s, expr) ==
    \E sub \in SubExprs(expr) : sub.k = "Reg" /\ OutdatedRegister(s, sub)

\* SimEnginePropagatorAIL._ail_handle_Tmp
AilHandleTmp(w, expr, codeloc, propagate_tmps) ==
    LET new_expr == GetVariable(w.s, expr).val IN
    IF new_expr # None
    THEN IF IsUsingOutdatedDef(w.s, new_expr)
         THEN [val |-> Top(expr.bits), w |-> w]
         ELSE LET w1 == AddReplacement(w, codeloc, expr, new_expr)
              IN IF new_expr.k \in {"Reg", "Const", "Convert", "BasePointerOffset"}
                 THEN [val |-> new_expr, w |-> w1]
                 ELSE IF ~propagate_tmps
                      THEN [val |-> Top(expr.bits), w |-> w1]
                      ELSE [val |-> Top(expr.bits), w |-> w1]
    ELSE IF ~propagate_tmps
         THEN [val |-> Top(expr.bits), w |-> w]
         ELSE [val |-> Top(expr.bits), w |-> w]

\* SimEnginePropagatorAIL.extract_offset_to_sp; for a claripy value it defers
\* to PropagatorState.extract_offset_to_sp
ExtractOffsetToSp(expr) ==
    IF expr.k = "SBO" THEN PyInt(expr.offset)
    ELSE IF IsExpression(expr) THEN None
    ELSE IF expr.k = "SpOffset" THEN PyInt(expr.offset)
    ELSE None

\* self._stack_pointer_tracker.offset_before(self.ins_addr, reg): the tracker
\* answers with the offsets it was configured with, None for no answer
OffsetBefore(reg) ==
    IF reg = sp_offset THEN config.tracker.sp
    ELSE IF reg = bp_offset THEN config.tracker.bp
    ELSE None

\* SimEnginePropagatorAIL._ail_handle_Register
AilHandleRegister(w, expr, codeloc) ==
    IF /\ config.tracker # None
       /\ expr.r \in {sp_offset, bp_offset}
       /\ OffsetBefore(expr.r) # None
    THEN LET new_expr == StackBaseOffset(OffsetBefore(expr.r).v, arch_bits)
         IN [val |-> new_expr, w |-> AddReplacement(w, codeloc, expr, new_expr)]
    ELSE
    LET new_expr == GetVariable(w.s, expr).val IN
    IF new_expr # None /\ ~IsUsingOutdatedDef(w.s, new_expr)
    THEN [val |-> new_expr, w |-> AddReplacement(w, codeloc, expr, new_expr)]
    ELSE [val |-> expr, w |-> w]

\* SimEnginePropagatorAIL._ail_handle_Load on the evaluated address
AilHandleLoad(w, expr, addr) ==
    IF IsTop(addr) THEN Top(expr.bits)
    ELSE LET offset == ExtractOffsetToSp(addr)
             var == IF offset # None
                    THEN GetStackVariable(w.s, offset, expr.bits \div byte_width).val
                    ELSE None
         IN IF var # None THEN var ELSE Load(addr, expr.bits)

\* SimEnginePropagatorAIL._ail_handle_Convert on the evaluated operand
AilHandleConvert(expr, operand_expr) ==
    IF IsTop(operand_expr) THEN Top(operand_expr.bits * byte_width)
    ELSE IF operand_expr.k = "Convert"
    THEN IF expr.from_bits = operand_expr.to_bits /\ expr.to_bits = operand_expr.from_bits
         THEN operand_expr.operand
         ELSE Convert(operand_expr.from_bits, expr.to_bits, expr.is_signed,
                      operand_expr.operand)
    ELSE IF operand_expr.k = "Const"
    THEN Const(operand_expr.v % (2 ^ expr.to_bits), expr.to_bits)
    ELSE Convert(expr.from_bits, expr.to_bits, expr.is_signed, operand_expr)

\* utils.constants.is_alignment_mask: the masks that clear the low bits of a
\* stack pointer, here those of a 16-bit word (the values stay below 2^31)
AlignmentMasks == { 2 ^ 16 - 2 ^ i : i \in 2..5 }

IsAlignmentMask(n) == n \in AlignmentMasks

\* SimEnginePropagatorAIL._ail_handle_And on the evaluated operands
AilHandleAnd(expr, operand_0, operand_1) ==
    IF IsTop(operand_0) THEN Top(operand_0.bits)
    ELSE IF IsTop(operand_1) THEN Top(operand_1.bits)
    ELSE IF /\ ExtractOffsetToSp(operand_0) # None
            /\ operand_1.k = "Const"
            /\ IsAlignmentMask(operand_1.v)
    THEN operand_0
    ELSE BinaryOp("And", operand_0, operand_1, expr.bits)

\* mutant of FoldBinary: the folded constant takes the width of the first operand
FoldBinaryOperandWidth(expr, operand_0, operand_1) ==
    IF IsTop(operand_0) THEN Top(operand_0.bits)
    ELSE IF IsTop(operand_1) THEN Top(operand_1.bits)
    ELSE IF operand_0.k = "Const" /\ operand_1.k = "Const"
         THEN Const(IF expr.k = "Add" THEN operand_0.v + operand_1.v
                    ELSE operand_0.v - operand_1.v, operand_0.bits)
    ELSE IF operand_0.k = "SBO" /\ operand_1.k = "Const"
         THEN StackBaseOffset(IF expr.k = "Add" THEN operand_0.offset + operand_1.v
                              ELSE operand_0.offset - operand_1.v, operand_0.bits)
         ELSE BinaryOp(expr.k, operand_0, operand_1, expr.bits)

\* the result of _ail_handle_Add / _ail_handle_Sub on the evaluated operands
FoldBinary(expr, operand_0, operand_1) ==
    IF IsTop(operand_0) THEN Top(operand_0.bits)
    ELSE IF IsTop(operand_1) THEN Top(operand_1.bits)
    ELSE IF operand_0.k = "Const" /\ operand_1.k = "Const"
         THEN Const(IF expr.k = "Add" THEN operand_0.v + operand_1.v
                    ELSE operand_0.v - operand_1.v, expr.bits)
    ELSE IF operand_0.k = "SBO" /\ operand_1.k = "Const"
         THEN StackBaseOffset(IF expr.k = "Add" THEN operand_0.offset + operand_1.v
                              ELSE operand_0.offset - operand_1.v, operand_0.bits)
         ELSE BinaryOp(expr.k, operand_0, operand_1, expr.bits)

\* SimEngineLightAILMixin._expr: the dispatch on the kind of the expression
RECURSIVE Expr(_, _, _, _)
Expr(w, expr, codeloc, propagate_tmps) ==
    IF expr.k = "Tmp" THEN AilHandleTmp(w, expr, codeloc, propagate_tmps)
    ELSE IF expr.k = "Reg" THEN AilHandleRegister(w, expr, codeloc)
    ELSE IF expr.k \in BinaryOps
    THEN \* _ail_handle_Add, _ail_handle_Sub, _ail_handle_And
         LET r0_ == Expr(w, expr.a, codeloc, propagate_tmps)
             r1_ == Expr(r0_.w, expr.b, codeloc, propagate_tmps)
         IN [val |-> IF expr.k = "And" THEN AilHandleAnd(expr, r0_.val, r1_.val)
                     ELSE FoldBinary(expr, r0_.val, r1_.val),
             w |-> r1_.w]
    ELSE IF expr.k = "Load"
    THEN LET addr == Expr(w, expr.addr, codeloc, propagate_tmps)
         IN [val |-> AilHandleLoad(addr.w, expr, addr.val), w |-> addr.w]
    ELSE IF expr.k = "Convert"
    THEN LET operand_expr == Expr(w, expr.operand, codeloc, propagate_tmps)
         IN [val |-> AilHandleConvert(expr, operand_expr.val), w |-> operand_expr.w]
    ELSE \* _ail_handle_Const, _ail_handle_CallExpr
         [val |-> expr, w |-> w]

\* mutant of AilHandleAssignment: no equivalence is recorded
AilHandleAssignmentNoEquivalence(w, stmt, codeloc, propagate_tmps) ==
    LET src == Expr(w, stmt.src, codeloc, propagate_tmps)
    IN IF stmt.dst.k \in {"Tmp", "Reg"}
       THEN StoreVariable(src.w, stmt.dst, src.val, codeloc)
       ELSE src.w

\* SimEnginePropagatorAIL._ail_handle_Assignment
AilHandleAssignment(w, stmt, codeloc, propagate_tmps) ==
    LET src == Expr(w, stmt.src, codeloc, propagate_tmps)
        dst == stmt.dst
    IN IF dst.k = "Tmp"
       THEN StoreVariable(src.w, dst, src.val, codeloc)
       ELSE IF dst.k = "Reg"
       THEN LET w1 == StoreVariable(src.w, dst, src.val, codeloc)
            IN IF stmt.src.k \in {"Reg", "Call"}
               THEN AddEquivalence(w1, codeloc, dst, stmt.src)
               ELSE w1
       ELSE src.w

\* SimEnginePropagatorAIL._ail_handle_Store
AilHandleStore(w, stmt, codeloc, propagate_tmps) ==
    LET addr == Expr(w, stmt.addr, codeloc, propagate_tmps)
        data == Expr(addr.w, stmt.data, codeloc, propagate_tmps)
        offset == ExtractOffsetToSp(addr.val)
    IN IF offset = None THEN data.w
       ELSE LET data_v == IF data.val.k = "SBO" THEN SpOffset(data.val.offset, arch_bits)
                          ELSE IF IsClaripy(data.val) THEN data.val
                          ELSE None
                size == IF data_v # None THEN data_v.bits \div byte_width
                        ELSE data.val.bits \div byte_width
                w1 == IF data_v # None
                      THEN StoreStackVariable(data.w, offset, size, data_v)
                      ELSE data.w
            IN AddEquivalence(w1, codeloc, SimStackVariable(offset.v, size), stmt.data)

\* mutant of AilHandleCall: the return atom keeps its binding
AilHandleCallKeepsBinding(w, expr_stmt, codeloc) ==
    IF expr_stmt.ret_expr # None
    THEN AddEquivalence(w, codeloc, expr_stmt.ret_expr,
                        Call(expr_stmt.f, expr_stmt.ret_expr.bits))
    ELSE w

\* SimEnginePropagatorAIL._ail_handle_Call, for a call with a constant target
\* and no arguments
AilHandleCall(w, expr_stmt, codeloc) ==
    IF expr_stmt.ret_expr # None
    THEN AddEquivalence(
             StoreVariable(w, expr_stmt.ret_expr, Top(expr_stmt.ret_expr.bits), codeloc),
             codeloc, expr_stmt.ret_expr, Call(expr_stmt.f, expr_stmt.ret_expr.bits))
    ELSE w

(***************************************************************************)
(* SpecState: PropagatorAILState objects driven through their methods      *)
(***************************************************************************)
\* the objects of the pool
PoolIds == {1, 2}

\* code locations (block address, statement index) passed to the methods
CodeLocs == {<<1, 0>>, <<1, 1>>}

r0 == Register(0, 32)
r1 == Register(1, 32)
r2 == Register(2, 32)
r3 == Register(3, 32)
t0 == Tmp(0, 32)

\* r1 + 1: a non-constant expression
E1 == BinaryOp("Add", r1, Const(1, 32), 32)

\* the atoms replaced and the values proposed for them in SpecState
OldAtoms == {r0, r2, t0}
NewValues == {E1, Const(5, 32), Call(1, 32), TopS, Top(32)}

\* the atoms bound and the values bound to them in SpecState
StoreAtoms == {r0, t0}
StoreValues == {r0, t0, BinaryOp("Add", r0, Const(1, 32), 32), Const(5, 32), Top(32)}

varsState == <<outer, inner, pool, last, nops>>

varsDriver == <<config, blocks, sealed, pending, node_iterations, states, replacements,
                equivalence, pc, cur, hist, done>>

vars == <<outer, inner, pool, last, nops, config, blocks, sealed, pending,
          node_iterations, states, replacements, equivalence, pc, cur, hist, done>>

\* the world of pool object i
PoolWorld(i) == World(pool[i], outer, inner, {})

\* w is the world after a method call on object i, its result stored as object j
Return(w, j, call) ==
    /\ outer' = w.outer
    /\ inner' = w.inner
    /\ pool' = [pool EXCEPT ![j] = w.s]
    /\ last' = call
    /\ nops' = nops + 1
    /\ UNCHANGED varsDriver

InitState ==
    \E only_consts \in BOOLEAN, maxit \in {max_iterations} :
        LET w1 == NewState(World(None, <<>>, <<>>, {}), only_consts)
            w2 == NewState(w1, only_consts)
        IN /\ outer = w2.outer
           /\ inner = w2.inner
           /\ pool = <<w1.s, w2.s>>
           /\ last = [op |-> "init"]
           /\ nops = 0
           /\ config = [block_mode |-> TRUE, only_consts |-> only_consts,
                        max_iterations |-> maxit, edges |-> {},
                        tracker |-> None, stored |-> 0, function |-> 0,
                        completed_funcs |-> None]
           /\ blocks = <<>>
           /\ sealed = {}
           /\ pending = {}
           /\ node_iterations = <<>>
           /\ states = <<>>
           /\ replacements = 0
           /\ equivalence = {}
           /\ pc = NoDef
           /\ cur = None
           /\ hist = {}
           /\ done = TRUE

OpAddReplacement(i, codeloc, old, new) ==
    /\ nops < MaxOps
    /\ Return(AddReplacement(PoolWorld(i), codeloc, old, new), i,
              [op |-> "add_replacement", self |-> i, codeloc |-> codeloc,
               old |-> old, new |-> new])

OpStoreVariable(i, variable, value, def_at) ==
    /\ nops < MaxOps
    /\ Return(StoreVariable(PoolWorld(i), variable, value, def_at), i,
              [op |-> "store_variable", self |-> i, variable |-> variable,
               value |-> value, def_at |-> def_at])

OpCopy(i, j) ==
    /\ nops < MaxOps
    /\ Return(CopyState(PoolWorld(i)), j, [op |-> "copy", self |-> i, to |-> j])

OpMerge(i, j, k) ==
    /\ nops < MaxOps
    /\ Return(MergeStates(PoolWorld(i), <<pool[j]>>), k,
              [op |-> "merge", self |-> i, other |-> j, to |-> k])

OpFilterReplacements(i) ==
    /\ nops < MaxOps
    /\ Return(FilterReplacements(PoolWorld(i)), i,
              [op |-> "filter_replacements", self |-> i])

\* the methods that bind variables
NextVars ==
    \/ \E i \in PoolIds, variable \in StoreAtoms, value \in StoreValues, def_at \in CodeLocs :
          OpStoreVariable(i, variable, value, def_at)
    \/ \E i \in PoolIds, j \in PoolIds : i # j /\ OpCopy(i, j)

SpecVars == InitState /\ [][NextVars]_vars

\* the values bound to r0 and the atoms read in SpecReads: r0 is read at its
\* own width and as a 16-bit register
ReadStoreValues == {r1, Const(5, 32), Top(32), SpOffset(0, 32), SpOffset(8, 32)}
ReadAtoms == {r0, Register(0, 16), t0}

\* get_variable leaves the state as it is; what it returns or raises is kept in last
OpGetVariable(i, variable) ==
    /\ nops < MaxOps
    /\ LET res == GetVariable(pool[i], variable)
       IN Return(PoolWorld(i), i,
                 [op |-> "get_variable", self |-> i, variable |-> variable,
                  val |-> res.val, err |-> res.err])

\* store_variable, get_variable and copy on the pool
NextReads ==
    \/ \E i \in PoolIds, variable \in StoreAtoms, value \in ReadStoreValues,
          def_at \in CodeLocs :
          OpStoreVariable(i, variable, value, def_at)
    \/ \E i \in PoolIds, variable \in ReadAtoms : OpGetVariable(i, variable)
    \/ \E i \in PoolIds, j \in PoolIds : i # j /\ OpCopy(i, j)

SpecReads == InitState /\ [][NextReads]_vars

\* the methods that work on the Replacement Table
NextState ==
    \/ \E i \in PoolIds, codeloc \in CodeLocs, old \in OldAtoms, new \in NewValues :
          OpAddReplacement(i, codeloc, old, new)
    \/ \E i \in PoolIds, j \in PoolIds : i # j /\ OpCopy(i, j)
    \/ \E i \in PoolIds, j \in PoolIds, k \in PoolIds : i # j /\ OpMerge(i, j, k)
    \/ \E i \in PoolIds : OpFilterReplacements(i)

SpecState == InitState /\ [][NextState]_vars

(***************************************************************************)
(* Spec: the fixpoint driver (PropagatorAnalysis) running the engine over  *)
(* the blocks of a function graph, or over a single block                  *)
(***************************************************************************)
Nodes == {1, 2}

\* the function graphs analysed: unconnected blocks, a chain, a loop
Graphs == { {}, {<<1, 2>>}, {<<1, 2>>, <<2, 1>>} }

\* the analyses explored record expressions too: only_consts=False, the default
OnlyConsts == {FALSE}

Assignment(dst, src) == [op |-> "Assignment", dst |-> dst, src |-> src]

CallStmt(f, ret_expr) == [op |-> "Call", f |-> f, ret_expr |-> ret_expr]

\* the statements the blocks are made of
AssignmentStmts ==
    { Assignment(r0, E1),               \* r0 := r1 + 1
      Assignment(r1, E1),               \* r1 := r1 + 1
      Assignment(r1, Const(5, 32)),     \* r1 := 5
      Assignment(r2, r0),               \* r2 := r0
      Assignment(r3, r2),               \* r3 := r2
      Assignment(t0, r1),               \* t0 := r1
      Assignment(r2, t0),               \* r2 := t0
      Assignment(r0, Call(1, 32)) }     \* r0 := f()

CallStmts == { CallStmt(1, r1) }        \* r1 = f()

\* the nodes of the graph visitor: the block, or the blocks of the function
VisitorNodes == IF config.block_mode THEN {1} ELSE DOMAIN blocks

Successors(n) == {m \in VisitorNodes : <<n, m>> \in config.edges}

Predecessors(n) == {m \in VisitorNodes : <<m, n>> \in config.edges}

\* SimEnginePropagatorAIL(propagate_tmps=block is not None)
PropagateTmps == config.block_mode

RECURSIVE SetToSeq(_)
SetToSeq(S) ==
    IF S = {} THEN <<>>
    ELSE LET x == CHOOSE y \in S : TRUE IN <<x>> \o SetToSeq(S \ {x})

TotalStmts == LET L == [n \in Nodes |-> Len(blocks[n])]
                  sum[S \in SUBSET Nodes] ==
                      IF S = {} THEN 0
                      ELSE LET x == CHOOSE y \in S : TRUE IN L[x] + sum[S \ {x}]
              IN sum[Nodes]

\* the world of the state the engine is working on
CurWorld == [s |-> cur, outer |-> outer, inner |-> inner, hist |-> hist, err |-> "none"]

\* the statement of node n at index i is stmt: a statement of the block as it
\* is known, or the next statement of a block visited for the first time
StmtAt(n, i, stmt) ==
    \/ /\ i <= Len(blocks[n])
       /\ blocks[n][i] = stmt
       /\ blocks' = blocks
    \/ /\ i = Len(blocks[n]) + 1
       /\ n \notin sealed
       /\ TotalStmts < MaxStmts
       /\ blocks' = [blocks EXCEPT ![n] = Append(@, stmt)]

\* the engine has handled the statement at pc and w is the world it left
Advance(w) ==
    /\ cur' = w.s
    /\ outer' = w.outer
    /\ inner' = w.inner
    /\ hist' = w.hist
    /\ pc' = <<pc[1], pc[2] + 1>>
    /\ UNCHANGED <<pool, last, nops, config, sealed, pending, node_iterations, states,
                   replacements, equivalence, done>>

Init ==
    \E block_mode \in BOOLEAN, only_consts \in OnlyConsts, maxit \in {max_iterations},
       edges \in Graphs :
        /\ (block_mode => edges = {})
        /\ config = [block_mode |-> block_mode, only_consts |-> only_consts,
                     max_iterations |-> maxit, edges |-> edges,
                     tracker |-> None, stored |-> 0,
                     function |-> IF block_mode THEN 0 ELSE 1,
                     completed_funcs |-> None]
        /\ outer = <<>>
        /\ inner = <<>>
        /\ pool = <<>>
        /\ last = [op |-> "init"]
        /\ nops = 0
        /\ blocks = [n \in Nodes |-> <<>>]
        /\ sealed = {}
        /\ pending = IF block_mode THEN {1} ELSE Nodes
        /\ node_iterations = [n \in Nodes |-> 0]
        /\ states = [n \in Nodes |-> None]
        /\ replacements = 0
        /\ equivalence = {}
        /\ pc = NoDef
        /\ cur = None
        /\ hist = {}
        /\ done = FALSE

\* PropagatorAnalysis._initial_abstract_state for an AIL block
InitialAbstractState == NewState(CurWorld, config.only_consts)

\* PropagatorAnalysis._merge_states: states[0].merge(*states[1:])
MergeOfStates(first, rest) == MergeStates([CurWorld EXCEPT !.s = first], rest)

\* the inbound state of node n: the merge of the latest outbound states of its
\* predecessors, received by that of p, or the initial state when p = 0
InputState(n, p) ==
    LET avail == {m \in Predecessors(n) : states[m] # None} IN
    IF p = 0 THEN InitialAbstractState
    ELSE MergeOfStates(states[p], [i \in 1..(Cardinality(avail) - 1) |->
                                      states[SetToSeq(avail \ {p})[i]]])

\* PropagatorAnalysis._check_func_complete for the function analysed
CheckFuncComplete ==
    IF config.completed_funcs = None THEN FALSE
    ELSE config.function \in config.completed_funcs.addrs

\* PropagatorAnalysis._check_prop_kb: the id of the table the knowledge base
\* holds for the function, 0 for None
CheckPropKb == IF config.function # 0 THEN config.stored ELSE 0

\* kb.propagations.update(func_loc, self.replacements) in _post_analysis, for
\* the table published
UpdatePropKb(published) ==
    IF config.function # 0 /\ CheckFuncComplete
    THEN [config EXCEPT !.stored = published]
    ELSE config

\* the graph visitor hands out node n; _run_on_node, up to the call of the
\* engine: state = state.copy()
RunOnNodeBegin(n) ==
    /\ pc = NoDef
    /\ ~done
    /\ CheckPropKb = 0
    /\ n \in pending
    /\ LET avail == {m \in Predecessors(n) : states[m] # None} IN
       \E p \in IF avail = {} THEN {0} ELSE avail :
          LET w == CopyState(InputState(n, p)) IN
          /\ cur' = w.s
          /\ outer' = w.outer
          /\ inner' = w.inner
    /\ pc' = <<n, 1>>
    /\ pending' = pending \ {n}
    /\ UNCHANGED <<pool, last, nops, config, blocks, sealed, node_iterations, states,
                   replacements, equivalence, hist, done>>

\* engine.process on an Assignment
ProcessAssignment ==
    /\ pc # NoDef
    /\ \E stmt \in AssignmentStmts :
          /\ StmtAt(pc[1], pc[2], stmt)
          /\ Advance(AilHandleAssignment(CurWorld, stmt, pc, PropagateTmps))

\* engine.process on a Call
ProcessCall ==
    /\ pc # NoDef
    /\ \E stmt \in CallStmts :
          /\ StmtAt(pc[1], pc[2], stmt)
          /\ Advance(AilHandleCall(CurWorld, stmt, pc))

\* if self.replacements is None: self.replacements = state._replacements
\* else: self.replacements.update(state._replacements)
Publish(w) ==
    IF replacements = 0
    THEN /\ replacements' = w.s.replacements
         /\ outer' = w.outer
    ELSE /\ replacements' = replacements
         /\ outer' = [w.outer EXCEPT ![replacements] = w.outer[w.s.replacements] @@ @]

\* mutant of RunOnNodeEnd: a node at the cap still reports a change
RunOnNodeEndRevisitsAtCap ==
    /\ pc # NoDef
    /\ pc[2] = Len(blocks[pc[1]]) + 1
    /\ LET n == pc[1]
           w == FilterReplacements(CurWorld)
       IN /\ node_iterations' = [node_iterations EXCEPT ![n] = @ + 1]
          /\ states' = [states EXCEPT ![n] = w.s]
          /\ Publish(w)
          /\ inner' = w.inner
          /\ equivalence' = equivalence \cup w.s.equivalence
          /\ sealed' = sealed \cup {n}
          /\ pending' = IF node_iterations'[n] <= config.max_iterations
                        THEN pending \cup (Successors(n) \ {n})
                        ELSE pending
    /\ pc' = NoDef
    /\ cur' = None
    /\ UNCHANGED <<pool, last, nops, config, blocks, hist, done>>

\* _run_on_node after the engine has processed the block, and the visitor's
\* revisit_successors when the node reports a change
RunOnNodeEnd ==
    /\ pc # NoDef
    /\ pc[2] = Len(blocks[pc[1]]) + 1
    /\ LET n == pc[1]
           w == FilterReplacements(CurWorld)
       IN /\ node_iterations' = [node_iterations EXCEPT ![n] = @ + 1]
          /\ states' = [states EXCEPT ![n] = w.s]
          /\ Publish(w)
          /\ inner' = w.inner
          /\ equivalence' = equivalence \cup w.s.equivalence
          /\ sealed' = sealed \cup {n}
          /\ pending' = IF node_iterations'[n] < config.max_iterations
                        THEN pending \cup (Successors(n) \ {n})
                        ELSE pending
    /\ pc' = NoDef
    /\ cur' = None
    /\ UNCHANGED <<pool, last, nops, config, blocks, hist, done>>

\* mutant of PostAnalysis: the table is cached whether or not the function is
\* in the completed set
PostAnalysisAlwaysCaches ==
    /\ pc = NoDef
    /\ ~done
    /\ CheckPropKb = 0
    /\ pending = {}
    /\ config' = [config EXCEPT !.stored = replacements]
    /\ done' = TRUE
    /\ UNCHANGED <<outer, inner, pool, last, nops, blocks, sealed, pending,
                   node_iterations, states, replacements, equivalence, pc, cur, hist>>

\* _analyze returns when the visitor has no node left: _post_analysis
PostAnalysis ==
    /\ pc = NoDef
    /\ ~done
    /\ CheckPropKb = 0
    /\ pending = {}
    /\ config' = UpdatePropKb(replacements)
    /\ done' = TRUE
    /\ UNCHANGED <<outer, inner, pool, last, nops, blocks, sealed, pending,
                   node_iterations, states, replacements, equivalence, pc, cur, hist>>

Next ==
    \/ \E n \in Nodes : RunOnNodeBegin(n)
    \/ ProcessAssignment
    \/ ProcessCall
    \/ RunOnNodeEnd
    \/ PostAnalysis

Spec == Init /\ [][Next]_vars

(***************************************************************************)
(* SpecDriver: the driver on given functions, with a stack pointer         *)
(* tracker and with the cache of stored propagations                       *)
(***************************************************************************)
Store(addr, data) == [op |-> "Store", addr |-> addr, data |-> data]

r_sp == Register(sp_offset, 32)

\* t0 = r_sp - 16; r_sp = t0; store(t0, 5); r2 = load(t0) and a successor
\* block that reads t0
StackFunction ==
    [addr |-> 1,
     nodes |-> {1, 2},
     edges |-> {<<1, 2>>},
     tracker |-> [sp |-> PyInt(0), bp |-> None],
     blocks |-> << << Assignment(t0, BinaryOp("Sub", r_sp, Const(16, 32), 32)),
                      Assignment(r_sp, t0),
                      Store(t0, Const(5, 32)),
                      Assignment(r2, Load(t0, 32)) >>,
                   << Assignment(r3, t0) >> >>]

\* a function whose node 2 has two predecessors, each on a cycle with it
JoinFunction ==
    [addr |-> 2,
     nodes |-> {1, 2, 3},
     edges |-> {<<1, 2>>, <<2, 1>>, <<3, 2>>, <<2, 3>>},
     tracker |-> None,
     blocks |-> << << Assignment(r1, Const(5, 32)) >>,
                   << Assignment(r2, r1) >>,
                   << >> >>]

\* r0 = f(); r3 = r0 + 1; r2 = r3 in one block
CallFunction ==
    [addr |-> 3,
     nodes |-> {1},
     edges |-> {},
     tracker |-> None,
     blocks |-> << << Assignment(r0, Call(1, 32)),
                      Assignment(r3, BinaryOp("Add", r0, Const(1, 32), 32)),
                      Assignment(r2, r3) >> >>]

Functions == {StackFunction, JoinFunction, CallFunction}

\* kb.propagations.get(func_loc): nothing stored, an empty table, a table
StoredTables ==
    { [outer |-> <<>>, inner |-> <<>>, stored |-> 0],
      [outer |-> << EmptyDict >>, inner |-> <<>>, stored |-> 1],
      [outer |-> << (<<9, 1>> :> 1) >>, inner |-> << (r0 :> Const(5, 32)) >>,
       stored |-> 1] }

\* the completed_funcs argument: None, or a set of function addresses
CompletedFuncs == { None, [k |-> "Set", addrs |-> {1}], [k |-> "Set", addrs |-> {1, 2}] }

\* the analysis of a function (func=...) or of its first block alone (block=...)
InitDriver ==
    \E func \in Functions, kb \in StoredTables, maxit \in 1..max_iterations,
       block_mode \in BOOLEAN, completed_funcs \in CompletedFuncs :
        /\ config = [block_mode |-> block_mode, only_consts |-> FALSE,
                     max_iterations |-> maxit,
                     edges |-> IF block_mode THEN {} ELSE func.edges,
                     tracker |-> func.tracker, stored |-> kb.stored,
                     function |-> IF block_mode THEN 0 ELSE func.addr,
                     completed_funcs |-> completed_funcs]
        /\ outer = kb.outer
        /\ inner = kb.inner
        /\ pool = <<>>
        /\ last = [op |-> "init"]
        /\ nops = 0
        /\ blocks = func.blocks
        /\ sealed = func.nodes
        /\ pending = IF block_mode THEN {1} ELSE func.nodes
        /\ node_iterations = [n \in func.nodes |-> 0]
        /\ states = [n \in func.nodes |-> None]
        /\ replacements = 0
        /\ equivalence = {}
        /\ pc = NoDef
        /\ cur = None
        /\ hist = {}
        /\ done = FALSE

\* SimEngineLightAILMixin._handle_Stmt: the dispatch on the kind of the statement
Stmt(w, stmt, codeloc, propagate_tmps) ==
    IF stmt.op = "Assignment" THEN AilHandleAssignment(w, stmt, codeloc, propagate_tmps)
    ELSE IF stmt.op = "Call" THEN AilHandleCall(w, stmt, codeloc)
    ELSE IF stmt.op = "Store" THEN AilHandleStore(w, stmt, codeloc, propagate_tmps)
    ELSE w

\* engine.process on the statement at pc of a given block
ProcessStatement ==
    /\ pc # NoDef
    /\ pc[2] <= Len(blocks[pc[1]])
    /\ blocks' = blocks
    /\ Advance(Stmt(CurWorld, blocks[pc[1]][pc[2]], pc, PropagateTmps))

\* _analyze: stored_replacements is not None, so the stored table is published
\* and no node is analysed; _post_analysis follows
ShortCircuit ==
    /\ pc = NoDef
    /\ ~done
    /\ CheckPropKb # 0
    /\ replacements' = CheckPropKb
    /\ config' = UpdatePropKb(replacements')
    /\ done' = TRUE
    /\ UNCHANGED <<outer, inner, pool, last, nops, blocks, sealed, pending,
                   node_iterations, states, equivalence, pc, cur, hist>>

\* engine.process(state, block=block): the statements of node n from index i on,
\* in program order
RECURSIVE ProcessBlock(_, _, _, _)
ProcessBlock(w, n, i, propagate_tmps) ==
    IF i > Len(blocks[n]) THEN w
    ELSE ProcessBlock(Stmt(w, blocks[n][i], <<n, i>>, propagate_tmps), n, i + 1,
                      propagate_tmps)

\* _run_on_node on a state already copied: engine.process, filter_replacements
TransferFrom(w, n) == FilterReplacements(ProcessBlock(w, n, 1, PropagateTmps))

\* _run_on_node: the outbound state of node n for the inbound state of w
Transfer(w, n) == TransferFrom(CopyState(w), n)

NextDriver ==
    \/ ShortCircuit
    \/ \E n \in DOMAIN blocks : RunOnNodeBegin(n)
    \/ ProcessStatement
    \/ RunOnNodeEnd
    \/ PostAnalysis

SpecDriver == InitDriver /\ [][NextDriver]_vars

\* _analyze runs its loop for as long as the visitor hands out a node
SpecDriverFair == SpecDriver /\ WF_vars(NextDriver)

(***************************************************************************)
(* SpecExpr: the engine evaluating single expressions (_expr) in a state   *)
(* where r0 may be bound and the stack pointer is tracked                  *)
(***************************************************************************)

\* the constants folded: small values and the extremes of 16 bits
FoldValues == {0, 1, 5, 2 ^ 15, 2 ^ 16 - 1}

\* the values r0 is bound to before the expression is evaluated
BoundValues == {None, Const(5, 32), StackBaseOffset(0 - 8, 32)}

\* the operands of the binary operations evaluated
Operands ==
    { Const(v, 16) : v \in FoldValues }
        \cup { Const(1, 8), Const(2 ^ 16 - 16, 16), r0, r_sp,
               StackBaseOffset(0 - 16, 32) }

BinaryExprs == { BinaryOp(op, a, b, 16) : op \in BinaryOps, a \in Operands, b \in Operands }

ConvertWidths == {1, 8, 16}

\* the conversions between two different widths
Conversions ==
    { c \in [from_bits : ConvertWidths, to_bits : ConvertWidths, is_signed : BOOLEAN] :
        c.from_bits # c.to_bits }

\* Convert of Convert of a register or of a constant
ConvertExprs ==
    { Convert(o.from_bits, o.to_bits, o.is_signed,
              Convert(i.from_bits, i.to_bits, i.is_signed, e)) :
        o \in Conversions, i \in Conversions, e \in {r1, Const(2 ^ 15, 16)} }

\* the expressions handed to the engine
InputExprs == BinaryExprs \cup ConvertExprs

InitExpr ==
    \E value \in BoundValues, expr \in InputExprs :
        LET w == StoreVariable(NewState(World(None, <<>>, <<>>, {}), FALSE),
                               r0, value, <<1, 0>>)
        IN /\ cur = w.s
           /\ outer = w.outer
           /\ inner = w.inner
           /\ hist = w.hist
           /\ pool = <<>>
           /\ last = [op |-> "input", expr |-> expr]
           /\ nops = 0
           /\ config = [block_mode |-> FALSE, only_consts |-> FALSE,
                        max_iterations |-> max_iterations, edges |-> {},
                        tracker |-> [sp |-> PyInt(0), bp |-> None], stored |-> 0,
                        function |-> 0, completed_funcs |-> None]
           /\ blocks = << <<>> >>
           /\ sealed = {}
           /\ pending = {}
           /\ node_iterations = <<0>>
           /\ states = << None >>
           /\ replacements = 0
           /\ equivalence = {}
           /\ pc = <<1, 1>>
           /\ done = FALSE

\* self._expr(expr) at the statement at pc leaves res = [val, w]
Evaluated(expr, res) ==
    /\ last' = [op |-> "expr", expr |-> expr, val |-> res.val]
    /\ cur' = res.w.s
    /\ outer' = res.w.outer
    /\ inner' = res.w.inner
    /\ hist' = res.w.hist
    /\ nops' = nops + 1
    /\ UNCHANGED <<pool, config, blocks, sealed, pending, node_iterations, states,
                   replacements, equivalence, pc, done>>

\* _ail_handle_Add, _ail_handle_Sub, _ail_handle_And on the input expression
EvaluateBinary ==
    /\ last.op = "input"
    /\ last.expr.k \in BinaryOps
    /\ Evaluated(last.expr, Expr(CurWorld, last.expr, pc, PropagateTmps))

\* _ail_handle_Convert on the input expression
EvaluateConvert ==
    /\ last.op = "input"
    /\ last.expr.k = "Convert"
    /\ Evaluated(last.expr, Expr(CurWorld, last.expr, pc, PropagateTmps))

NextExpr ==
    \/ EvaluateBinary
    \/ EvaluateConvert

SpecExpr == InitExpr /\ [][NextExpr]_vars

\* ---------------------------------------------------------------------------
\* Properties
\* ---------------------------------------------------------------------------

\* the entries <<location, atom, value>> of table tab in the heaps out and inn
Entries(out, inn, tab) ==
    UNION { { <<l, a, inn[out[tab][l]][a]>> : a \in DOMAIN inn[out[tab][l]] } :
            l \in DOMAIN out[tab] }

\* a value that is an IR expression and not a constant
NonConstExpr(v) == IsExpression(v) /\ v.k # "Const"

\* the expressions proposed through add_replacement at two or more distinct
\* (location, non-temporary atom) pairs
ProposedTwice ==
    { h[3] : h \in { h \in hist : \E g \in hist :
                        g[3] = h[3] /\ <<g[1], g[2]>> # <<h[1], h[2]>> } }

\* the state objects the analysis holds
StateObjects == ({cur} \cup {states[n] : n \in Nodes}) \ {None}

\* the engine handles one statement in this step
EngineStep == pc # NoDef /\ pc' = <<pc[1], pc[2] + 1>>

\* the statement the engine handles in an EngineStep
Handled == blocks'[pc[1]][pc[2]]

\* C1: once the analysis has finished, an expression that is not a constant and
\* was proposed at two or more distinct (location, non-temporary atom) pairs is
\* the value of no entry of the published table
C1_ProposedTwiceUnpublished ==
    (done /\ replacements # 0) =>
        \A e \in Entries(outer, inner, replacements) :
            NonConstExpr(e[3]) => Key(e[3]) \notin ProposedTwice

\* in the table of state s, an entry for a non-temporary atom whose value is a
\* non-constant expression has a use count of at most one
CounterBound(s) ==
    \A e \in Entries(outer, inner, s.replacements) :
        (e[2].k # "Tmp" /\ NonConstExpr(e[3])) => Count(s.prop_count, Key(e[3])) <= 1

\* C2: in every state object, every table entry for a non-temporary atom whose
\* value is a non-constant expression E has Counter[E] <= 1
C2_CounterInvariant == \A s \in StateObjects : CounterBound(s)
\* statement stmt assigns register r: an Assignment to r or a Call whose
\* return binding is r
Assigns(stmt, r) ==
    \/ stmt.op = "Assignment" /\ Strip(stmt.dst) = Strip(r)
    \/ stmt.op = "Call" /\ Strip(stmt.ret_expr) = Strip(r)

\* register x is bound, by an earlier statement of the block being processed,
\* to an expression that references a register assigned by a statement between
\* that one and the one at pc
StaleBinding(x) ==
    /\ x.r \in DOMAIN cur.registers
    /\ LET label == LabelOf(cur.registers[x.r]) IN
       /\ label.expr # None
       /\ label.def_at[1] = pc[1]
       /\ label.def_at[2] < pc[2]
       /\ \E sub \in SubExprs(label.expr) :
             /\ sub.k = "Reg"
             /\ \E j \in (label.def_at[2] + 1)..(pc[2] - 1) :
                   Assigns(blocks[pc[1]][j], sub)

\* C3: within a block, when r0 is bound to an expression E referencing r1 and
\* r1 is assigned afterwards, a later read of r0 records no replacement of r0
\* by E and does not evaluate to E
C3_NoStaleRead ==
    [][(/\ EngineStep
        /\ Handled.op = "Assignment"
        /\ Handled.src.k = "Reg"
        /\ StaleBinding(Handled.src))
       => LET E == LabelOf(cur.registers[Handled.src.r]).expr IN
          /\ Strip(AilHandleRegister(CurWorld, Handled.src, pc).val) # Strip(E)
          /\ <<pc, Key(Handled.src), E>> \notin
                { <<e[1], e[2], Strip(e[3])>> :
                     e \in Entries(outer', inner', cur'.replacements) }]_vars

\* the entries of the tables of all pool objects
PoolEntries == UNION { Entries(outer, inner, pool[p].replacements) : p \in PoolIds }

\* this step is a call of method op on a pool object
Called(op) == nops' # nops /\ last'.op = op

\* C4: no table entry of a reachable state has a call expression as its value,
\* and add_replacement with a call expression as the new value leaves the
\* table and the use counter unchanged
C4_NoCallReplacement ==
    /\ [](\A e \in PoolEntries : e[3].k # "Call")
    /\ [][(Called("add_replacement") /\ last'.new.k = "Call")
          => (outer' = outer /\ inner' = inner /\ pool' = pool)]_vars

\* add_replacement was called with a call expression on a state whose table
\* and counter are not empty
C4_Witness ==
    /\ last.op = "add_replacement"
    /\ last.new.k = "Call"
    /\ Entries(outer, inner, pool[last.self].replacements) # {}
    /\ pool[last.self].prop_count # EmptyDict

\* C5: store_variable(x, value, loc) with a value that is an IR expression
\* containing x leaves the register store and the temporaries as they were,
\* for a temporary x and for a register x
C5_SelfReferenceGuard ==
    [][(/\ Called("store_variable")
        /\ IsExpression(last'.value)
        /\ HasAtom(last'.value, last'.variable))
       => (/\ pool'[last'.self].registers = pool[last'.self].registers
           /\ pool'[last'.self].tmps = pool[last'.self].tmps)]_vars

\* store_variable was called for a register with a value containing it, on a
\* state that binds registers and temporaries
C5_Witness ==
    /\ last.op = "store_variable"
    /\ IsExpression(last.value)
    /\ HasAtom(last.value, last.variable)
    /\ last.variable.k = "Reg"
    /\ pool[last.self].registers # EmptyDict
    /\ pool[last.self].tmps # EmptyDict

\* C6: add_replacement(location, old, new) with new the Top sentinel or a value
\* of state.top() removes the entry for old at that location if there is one,
\* records nothing and leaves all other entries and the use counter unchanged
C6_TopEvicts ==
    [][(/\ Called("add_replacement")
        /\ (last'.new.k = "TopS" \/ IsTop(last'.new)))
       => LET tab == pool[last'.self].replacements
              loc == last'.codeloc
              old == Key(last'.old)
          IN /\ pool' = pool
             /\ outer' = outer
             /\ inner' = [d \in DOMAIN inner |->
                             IF loc \in DOMAIN outer[tab] /\ d = outer[tab][loc]
                             THEN DictDel(inner[d], old)
                             ELSE inner[d]]]_vars

\* the entries of the pool whose value is Top
TopEntries == { e \in PoolEntries : e[3].k = "TopS" \/ IsTop(e[3]) }

\* the entries of the tables of the operands of the merge made in this step
OperandEntries(i) == Entries(outer, inner, pool[i].replacements)

\* C7 as stated: no table of a reachable state, merged states included, holds
\* an entry whose value is Top
C7_TopNeverRecorded == TopEntries = {}

\* C7: add_replacement, copy and filter_replacements create no entry whose
\* value is Top; merge creates one only at a (location, atom) key for which its
\* operands hold different values
C7_TopOnlyFromMerge ==
    [][IF Called("merge")
       THEN \A e \in TopEntries' \ TopEntries :
               \E e1 \in OperandEntries(last'.self), e2 \in OperandEntries(last'.other) :
                  /\ e1[1] = e[1] /\ e1[2] = e[2]
                  /\ e2[1] = e[1] /\ e2[2] = e[2]
                  /\ NotEqual(e1[3], e2[3])
       ELSE TopEntries' \subseteq TopEntries]_vars

\* a merge of two states that disagree on a key has written Top there
C7_Witness == last.op = "merge" /\ TopEntries # {}

\* in table tab with counter prop_count: value v is a non-constant expression
\* whose use count is above one
Disqualified(prop_count, v) == NonConstExpr(v) /\ Count(prop_count, Key(v)) > 1

\* C8: after filter_replacements the table of the state holds no entry whose
\* value is a non-constant expression with a use count above 1, and every
\* other entry is still there
C8_FilterRemovesDisqualified ==
    [][Called("filter_replacements")
       => LET before == Entries(outer, inner, pool[last'.self].replacements)
              after == Entries(outer', inner', pool'[last'.self].replacements)
              prop_count == pool[last'.self].prop_count
          IN after = { e \in before : ~Disqualified(prop_count, e[3]) }]_vars

\* C9: a transfer starts with no temporary bound: the copy the driver makes of
\* the inbound state has an empty scratch map
C9_TmpsAreBlockLocal == (pc # NoDef /\ pc[2] = 1) => cur.tmps = EmptyDict

\* a transfer starts on the copy of an inbound state that binds a temporary
C9_Witness ==
    /\ pc # NoDef
    /\ pc[2] = 1
    /\ \E m \in Predecessors(pc[1]) :
          /\ Predecessors(pc[1]) = {m}
          /\ states[m] # None
          /\ states[m].tmps # EmptyDict

\* C10: in a function-scoped run a read of a temporary evaluates to Top and
\* records no replacement for the temporary
C10_TmpNotSubstituted ==
    [][(/\ EngineStep
        /\ ~config.block_mode
        /\ Handled.op = "Assignment"
        /\ Handled.src.k = "Tmp")
       => (/\ IsTop(AilHandleTmp(CurWorld, Handled.src, pc, PropagateTmps).val)
           /\ \A e \in Entries(outer', inner', cur'.replacements) :
                 ~(e[1] = pc /\ e[2] = Key(Handled.src)))]_vars
\* the block at pc is that of scenario A and the engine is at its load
AtScenarioLoad ==
    /\ pc # NoDef
    /\ blocks[pc[1]] = StackFunction.blocks[1]
    /\ config.tracker # None
    /\ blocks[pc[1]][pc[2]] = Assignment(r2, Load(t0, 32))

\* C11: in a block where r_sp resolves to a stack-base offset, after
\* t0 = r_sp - 16; r_sp = t0; store(t0, 5) the store is recorded in a stack
\* slot and load(t0) evaluates to the constant 5; the state a successor
\* starts on binds no temporary
C11_ScenarioA ==
    /\ []((pc # NoDef /\ pc[2] = 1) => cur.tmps = EmptyDict)
    /\ [][(EngineStep /\ AtScenarioLoad)
          => (/\ cur.stack_variables # EmptyDict
              /\ Strip(Expr(CurWorld, Load(t0, 32), pc, PropagateTmps).val)
                    = Const(5, 32))]_vars
\* the engine is at an assignment z := x of the register x, x is bound by an
\* assignment x := y to the register y, and y is unbound and was not proposed
\* as a replacement before
AtScenarioB ==
    /\ EngineStep
    /\ ~config.only_consts
    /\ Handled.op = "Assignment"
    /\ Handled.dst.k = "Reg"
    /\ Handled.src.k = "Reg"
    /\ Handled.src.r \in DOMAIN cur.registers
    /\ LET label == LabelOf(cur.registers[Handled.src.r]) IN
       /\ label.expr # None
       /\ label.expr.k = "Reg"
       /\ label.expr.r \notin DOMAIN cur.registers
       /\ Count(cur.prop_count, Key(label.expr)) = 0
       /\ blocks[label.def_at[1]][label.def_at[2]]
             = Assignment(Strip(Handled.src), Strip(label.expr))

BoundByCall(r) ==
    \E j \in 1..(pc[2] - 1) :
        /\ blocks[pc[1]][j].op = "Call"
        /\ Assigns(blocks[pc[1]][j], r)
        /\ \A i \in (j + 1)..(pc[2] - 1) : ~Assigns(blocks[pc[1]][i], r)

\* C13: a Call with return atom r at L records the equivalence {L, r, call};
\* until r is assigned again every read of r evaluates to Top and records no
\* replacement for r at its use site
C13_CallResultIsTop ==
    [][/\ (EngineStep /\ Handled.op = "Call")
          => <<pc, Key(Handled.ret_expr), Call(Handled.f, Handled.ret_expr.bits)>>
                \in cur'.equivalence
       /\ (EngineStep /\ Handled.op = "Assignment")
          => \A sub \in SubExprs(Handled.src) :
                (sub.k = "Reg" /\ BoundByCall(sub))
                => /\ IsTop(AilHandleRegister(CurWorld, sub, pc).val)
                   /\ \A e \in Entries(outer', inner', cur'.replacements) :
                         ~(e[1] = pc /\ e[2] = Key(sub))]_vars

\* r1 was bound to a constant, then to the result of a call, and then read
C13_Witness ==
    /\ pc = <<1, 4>>
    /\ blocks[1] = << Assignment(r1, Const(5, 32)), CallStmt(1, r1), Assignment(t0, r1) >>
    /\ cur.tmps = (0 :> Top(32))
    /\ <<<<1, 2>>, r1, Call(1, 32)>> \in cur.equivalence
\* the driver hands a node whose block is known to the engine a second time
Revisit == pc = NoDef /\ pc' # NoDef /\ pc'[1] \in sealed

\* the inbound state of the node handed out, after state.copy()
Inbound == [s |-> cur', outer |-> outer', inner |-> inner', hist |-> hist, err |-> "none"]

SameStores(s1, s2) ==
    /\ s1.registers = s2.registers
    /\ s1.stack_variables = s2.stack_variables

\* the transfer of node n maps the state of w1 to a state with the same stores
AtFixpoint(w1, n) == SameStores(TransferFrom(w1, n).s, w1.s)

\* C14: if the transfer of a node maps S to S' with the same register and stack
\* stores, the transfer of the same node applied to S' yields the stores, the
\* replacement table and the use counter of S' and leaves the ledger as it is
C14_IdempotentAtFixpoint ==
    [][(Revisit /\ AtFixpoint(Inbound, pc'[1]))
       => LET w1 == TransferFrom(Inbound, pc'[1])
              w2 == Transfer(w1, pc'[1])
          IN /\ SameStores(w2.s, w1.s)
             /\ Entries(w2.outer, w2.inner, w2.s.replacements)
                   = Entries(w1.outer, w1.inner, w1.s.replacements)
             /\ w2.s.prop_count = w1.s.prop_count
             /\ w2.s.equivalence = w1.s.equivalence]_vars
\* C15: whatever the graph and the order in which nodes are handed out, the
\* transfer of no node is applied more than max_iterations times
C15_IterationCap ==
    \A n \in DOMAIN node_iterations : node_iterations[n] <= config.max_iterations
\* the knowledge base holds a table for the function and the table has entries
CachedNonEmpty ==
    /\ config.function # 0
    /\ config.stored # 0
    /\ DOMAIN outer[config.stored] # {}

\* C16: the driver short-circuits exactly when a cached table for the function
\* is present and non-empty: then no transfer is applied and the cached table
\* is what is published; with no table or an empty one the nodes are processed
C16_ShortCircuitIffCachedNonEmpty ==
    done => IF CachedNonEmpty
            THEN /\ \A n \in DOMAIN node_iterations : node_iterations[n] = 0
                 /\ replacements = config.stored
            ELSE \E n \in DOMAIN node_iterations : node_iterations[n] > 0
\* a literal constant: a constant expression or a plain integer
IsLiteralConstant(new) == new.k \in {"Const", "Int"}

\* C17: with only_consts set, add_replacement records the entry when the new
\* value is a literal constant and leaves the table unchanged when it is a
\* non-constant expression, so every entry it adds has a literal constant value
C17_OnlyConstsRecordsConstants ==
    [][(Called("add_replacement") /\ pool[last'.self].only_consts)
       => LET i == last'.self
              before == Entries(outer, inner, pool[i].replacements)
              after == Entries(outer', inner', pool'[i].replacements)
          IN /\ IsLiteralConstant(last'.new)
                => <<last'.codeloc, Key(last'.old), last'.new>> \in after
             /\ (IsExpression(last'.new) /\ ~IsLiteralConstant(last'.new))
                => after = before
             /\ \A e \in after \ before : IsLiteralConstant(e[3])]_vars
\* the engine evaluates the input expression in this step
Evaluates == last.op = "input" /\ last'.op = "expr"

\* what the first and the second operand of the input expression evaluate to
Operand0 == Expr(CurWorld, last.expr.a, pc, PropagateTmps)
Operand1 == Expr(Operand0.w, last.expr.b, pc, PropagateTmps)

\* C18: an Add (a Sub) whose operands evaluate to the constants a and b
\* evaluates to the constant a + b (a - b) with the bits of the Add (Sub)
C18_FoldsConstants ==
    [][(/\ Evaluates
        /\ last.expr.k \in {"Add", "Sub"}
        /\ Operand0.val.k = "Const"
        /\ Operand1.val.k = "Const")
       => last'.val = Const(IF last.expr.k = "Add"
                            THEN Operand0.val.v + Operand1.val.v
                            ELSE Operand0.val.v - Operand1.val.v,
                            last.expr.bits)]_vars

\* r0, bound to 5, was added to the largest 16-bit constant
C18_Witness ==
    /\ last.op = "expr"
    /\ last.expr = BinaryOp("Add", r0, Const(2 ^ 16 - 1, 16), 16)
    /\ last.val = Const(2 ^ 16 + 4, 16)
\* what the operand of the input Convert evaluates to
ConvertOperand == Expr(CurWorld, last.expr.operand, pc, PropagateTmps).val

\* the outer conversion undoes the inner one: widths swapped, same signedness
MutualInverses(outer_, inner_) ==
    /\ outer_.from_bits = inner_.to_bits
    /\ outer_.to_bits = inner_.from_bits
    /\ outer_.is_signed = inner_.is_signed

\* C19: a Convert whose operand evaluates to a Convert of e evaluates to e
\* exactly when the two conversions are mutual inverses in widths and signedness
C19_ConvertOfConvert ==
    [][(/\ Evaluates
        /\ last.expr.k = "Convert"
        /\ ConvertOperand.k = "Convert")
       => (last'.val = ConvertOperand.operand
              <=> MutualInverses(last.expr, ConvertOperand))]_vars
\* v is a stack-pointer-relative value, m a constant that is an alignment mask
StackRelativeAndMask(v, m) ==
    /\ ExtractOffsetToSp(v) # None
    /\ m.k = "Const"
    /\ IsAlignmentMask(m.v)

\* C20: an And of a stack-pointer-relative value and an alignment mask, in
\* either order of the operands, evaluates to the stack-relative value
C20_AlignmentIsElided ==
    [][(Evaluates /\ last.expr.k = "And")
       => /\ StackRelativeAndMask(Operand0.val, Operand1.val)
             => last'.val = Operand0.val
          /\ StackRelativeAndMask(Operand1.val, Operand0.val)
             => last'.val = Operand1.val]_vars
\* _run_on_node returns for node pc[1] and the visitor queues a node for it
ReportsProgress == pc # NoDef /\ pc' = NoDef /\ pending' # pending

\* C21: on every function graph, cyclic ones included, and for every
\* max_iterations >= 1 the analysis eventually publishes its result with no
\* work pending, and a node reports progress only while its iteration counter
\* is below the cap
C21_Terminates ==
    /\ <>(done /\ (replacements # CheckPropKb => pending = {}))
    /\ [][ReportsProgress
          => node_iterations'[pc[1]] < config.max_iterations]_vars

\* the analysis of the cyclic graph has ended after a node reached the cap
C21_Witness ==
    /\ done
    /\ pending = {}
    /\ replacements # 0
    /\ <<2, 1>> \in config.edges
    /\ \E n \in DOMAIN node_iterations : node_iterations[n] >= config.max_iterations
\* the value the state holds for atom sub uses an outdated definition
OutdatedCandidate(sub) ==
    LET v == GetVariable(cur, sub).val
    IN v # None /\ IsUsingOutdatedDef(cur, v)

\* C22: a temporary read or register read whose looked-up value uses an
\* outdated definition evaluates to Top, and no replacement is recorded for
\* the atom at that use site
C22_OutdatedReadIsTop ==
    [][(EngineStep /\ Handled.op = "Assignment")
       => \A sub \in SubExprs(Handled.src) :
             (sub.k \in {"Reg", "Tmp"} /\ OutdatedCandidate(sub))
             => /\ IsTop(Expr(CurWorld, sub, pc, PropagateTmps).val)
                /\ \A e \in Entries(outer', inner', cur'.replacements) :
                      ~(e[1] = pc /\ e[2] = Key(sub))]_vars
\* get_variable is called for a register whose record holds a value that is
\* not Top and whose width differs from the width of the read
MismatchedRead ==
    /\ Called("get_variable")
    /\ last'.variable.k = "Reg"
    /\ last'.variable.r \in DOMAIN pool[last'.self].registers
    /\ LET rec == pool[last'.self].registers[last'.variable.r]
       IN ~IsTop(rec.value) /\ rec.value.bits # last'.variable.bits

\* C23: get_variable on a register holding a concrete value of another width
\* than the read returns Top at the width of the read, raises no error and
\* leaves the state unchanged
C23_MismatchedReadIsTop ==
    [][MismatchedRead
       => /\ last'.err = "none"
          /\ last'.val # None
          /\ IsTop(last'.val)
          /\ last'.val.bits = last'.variable.bits
          /\ pool' = pool]_vars
\* the distinct counted proposals <<location, atom, E>> made so far by all nodes
Proposals(E) == { h \in hist : h[3] = E }

\* C24: the use counter is one structure shared by all nodes: the count of E
\* seen by the state of the node being processed is the number of counted
\* proposals of E made so far by all nodes, hence never less than the number
\* of distinct ones
C24_CounterIsShared ==
    pc # NoDef
    => \A E \in { h[3] : h \in hist } :
          Count(cur.prop_count, E) >= Cardinality(Proposals(E))
\* add_replacement is called for a non-temporary atom with a non-constant
\* expression whose use count in the state already exceeds 1
ProposesFrozen ==
    /\ Called("add_replacement")
    /\ last'.old.k # "Tmp"
    /\ IsExpression(last'.new)
    /\ last'.new.k # "Const"
    /\ Count(pool[last'.self].prop_count, Key(last'.new)) > 1

\* C25: once the use count of a non-constant expression E exceeds 1 in a state,
\* no later add_replacement for a non-temporary atom records an entry with
\* value E in that state or in a copy of it, and the count of E never decreases
C25_FrozenAgainstReAddition ==
    /\ [][ProposesFrozen
          => \A e \in Entries(outer', inner', pool'[last'.self].replacements)
                        \ Entries(outer, inner, pool[last'.self].replacements) :
                Key(e[3]) # Key(last'.new)]_vars
    /\ [][Called("add_replacement")
          => \A E \in DOMAIN pool[last'.self].prop_count :
                Count(pool'[last'.self].prop_count, E)
                    >= pool[last'.self].prop_count[E]]_vars
    /\ [][Called("copy")
          => pool'[last'.to].prop_count = pool[last'.self].prop_count]_vars

\* E1 was proposed for a register a third time in a state that records
\* expressions
C25_Witness ==
    /\ last.op = "add_replacement"
    /\ last.new = E1
    /\ last.old.k = "Reg"
    /\ ~pool[last.self].only_consts
    /\ Count(pool[last.self].prop_count, Key(E1)) = 3
\* the table of pool object i, and the table of the merge of i (the receiver)
\* with j
TableOf(i) == Entries(outer, inner, pool[i].replacements)
MergedTable(i, j) ==
    LET w == MergeStates(PoolWorld(i), <<pool[j]>>)
    IN Entries(w.outer, w.inner, w.s.replacements)

\* the (location, atom) keys of a table
Keys(T) == { <<e[1], e[2]>> : e \in T }

\* tables S and T hold different values under some key
Disagree(S, T) ==
    \E e \in S, f \in T : e[1] = f[1] /\ e[2] = f[2] /\ NotEqual(e[3], f[3])

\* C26: merge is commutative and idempotent per key on the table: the keys of
\* the merged table are the union of the operands' keys, a value no operand
\* contradicts is kept, the result is the same whichever operand is the
\* receiver, and a state merged with itself yields its own table
C26_MergeCommutativeIdempotent ==
    \A i \in PoolIds, j \in PoolIds :
        /\ MergedTable(i, j) = MergedTable(j, i)
        /\ Keys(MergedTable(i, j)) = Keys(TableOf(i)) \cup Keys(TableOf(j))
        /\ \A e \in TableOf(i) :
              ~Disagree({e}, TableOf(j)) => e \in MergedTable(i, j)
        /\ MergedTable(i, i) = TableOf(i)

\* the two states disagree on a key and one of them holds a second key
C26_Witness ==
    /\ Disagree(TableOf(1), TableOf(2))
    /\ Cardinality(Keys(MergedTable(1, 2))) >= 2
\* the table the knowledge base holds for the function changes in this step
CacheWritten == config'.stored # config.stored

\* the run of a function that is in the completed set ends in this step
CompletedRunEnds == ~done /\ done' /\ config.function # 0 /\ CheckFuncComplete

\* C27: the cache is written only at the end of a function-scoped run whose
\* function is in the completed set, and then with the published table; a
\* block-scoped run processes its block whatever the cache holds, and neither
\* it nor a run without the function in the completed set writes the cache
C27_CacheWrittenAtCompletedEnd ==
    /\ [][CacheWritten => CompletedRunEnds]_vars
    /\ [][CompletedRunEnds => config'.stored = replacements']_vars
    /\ [](done /\ config.block_mode => node_iterations[1] > 0)

\* a completed function was analysed node by node and its table was cached
C27_Witness ==
    /\ done
    /\ config.function # 0
    /\ CheckFuncComplete
    /\ node_iterations[1] > 0
    /\ config.stored = replacements
    /\ DOMAIN outer[config.stored] # {}
\* the outer conversion takes the width the inner one produces and does not
\* lead back to the width the inner one started from
NotInverseWidths(outer_, inner_) ==
    /\ outer_.from_bits = inner_.to_bits
    /\ outer_.to_bits # inner_.from_bits

\* C28: a Convert whose operand evaluates to a Convert that is not its inverse
\* evaluates to a Convert with the outer conversion's own from/to widths around
\* the evaluated inner conversion
C28_NonInverseConvertIsNested ==
    [][(/\ Evaluates
        /\ last.expr.k = "Convert"
        /\ ConvertOperand.k = "Convert"
        /\ NotInverseWidths(last.expr, ConvertOperand))
       => last'.val = Convert(last.expr.from_bits, last.expr.to_bits,
                              last.expr.is_signed, ConvertOperand)]_vars
\* the input expression is folded: an Add or a Sub of two constants, or a
\* Convert of a constant
Folds ==
    /\ Evaluates
    /\ \/ /\ last.expr.k \in {"Add", "Sub"}
          /\ Operand0.val.k = "Const"
          /\ Operand1.val.k = "Const"
       \/ /\ last.expr.k = "Convert"
          /\ ConvertOperand.k = "Const"

\* C29: the constant a fold produces has a value v with 0 <= v < 2^w for its
\* own width w
C29_FoldedConstantInRange ==
    [][Folds => (/\ last'.val.k = "Const"
                 /\ 0 <= last'.val.v
                 /\ last'.val.v < 2 ^ last'.val.bits)]_vars
\* the value v is an expression with a call among its sub-expressions
ContainsCall(v) == \E sub \in SubExprs(v) : sub.k = "Call"

\* C30: no entry of a replacement table has a value that contains a call
C30_NoCallInReplacements ==
    \A tab \in DOMAIN outer :
        \A e \in Entries(outer, inner, tab) : ~ContainsCall(e[3])
====
